---- MODULE Spec2Model ----
(***************************************************************************)
(* Model of plugins/module_utils/client.py: the Response wrapper with its  *)
(* memoized json property, and the Client with its lazily cached auth      *)
(* header, the low-level dispatch _request, the request builder and the    *)
(* four verb wrappers.                                                     *)
(*                                                                         *)
(* Every Python value is a record.  A string (or byte string) is          *)
(* Str(chunks), a sequence of chunks, so that format() and concatenation   *)
(* are Join, and the empty string is Str(<< >>).  A dict is a function     *)
(* from keys to values, the empty dict is << >>.  A list is List(seq).     *)
(* None is the record None.  A raised exception is a record with the       *)
(* field exc.  The HTTP transport (ansible's Request) is the environment:  *)
(* every call of open yields one outcome of Outcomes.                      *)
(***************************************************************************)
EXTENDS Integers, Sequences, FiniteSets, TLC

\* Bound: number of get/post/put/delete/request calls in a client's lifetime.
MaxCalls == 2
\* Bound: number of accesses to the json property of one Response.
MaxReads == 3

VARIABLES
    host, username, password, client_id, client_secret, \* Client.__init__ arguments
    _auth_header,   \* Client._auth_header, the cache behind auth_header
    _client,        \* Client._client, the transport handle
    threads,        \* the callers using the client
    pc,             \* per caller: position in the current call
    frame,          \* per caller: operation and arguments of the current call
    login,          \* per caller: what reading auth_header did in the current call
    opens,          \* per caller: each _client.open of the current call, with its
                    \* arguments and what the transport did
    resp,           \* per caller: what Client.request returned or raised
    result,         \* per caller: what the called operation returned or raised
    opened,         \* every _client.open of the client's lifetime, in order (summary)
    ncalls,         \* number of calls started on the client
    r,              \* a Response object whose json property is read
    reads,          \* number of reads of r.json so far
    parses,         \* number of json.loads calls made for r
    got             \* outcome of each read of r.json, in order

clientVars == <<host, username, password, client_id, client_secret, _auth_header, _client>>
callVars == <<threads, pc, frame, login, opens, resp, result, opened, ncalls>>
responseVars == <<r, reads, parses, got>>
vars == <<clientVars, callVars, responseVars>>

-----------------------------------------------------------------------------
(* Python values *)

None == [type |-> "NoneType"]
Str(chunks) == [str |-> chunks]
List(seq) == [list |-> seq]
EmptyDict == << >>

\* Concatenation of a sequence of strings: "{0}{1}".format(a, b), a + b.
RECURSIVE Join(_)
Join(parts) ==
    IF parts = << >> THEN Str(<< >>)
    ELSE Str(Head(parts).str \o Join(Tail(parts)).str)

\* Python truth value of a string, a dict, a list or None.
Truthy(v) == v # None /\ v # Str(<< >>) /\ v # EmptyDict /\ v # List(<< >>)

Return(v) == [kind |-> "return", value |-> v]
Raise(e) == [kind |-> "raise", value |-> e]

AuthError(msg) == [exc |-> "AuthError", msg |-> msg]
ServiceNowError(msg) == [exc |-> "ServiceNowError", msg |-> msg]
UnexpectedAPIResponse(status, data) ==
    [exc |-> "UnexpectedAPIResponse", status |-> status, data |-> data]
\* resp.json["access_token"] on a dict without the key.
KeyError(key) == [exc |-> "KeyError", msg |-> Str(<<key>>)]
\* resp.json["access_token"] on a value that is not subscriptable (None).
TypeError == [exc |-> "TypeError", msg |-> Str(<<"'NoneType' object is not subscriptable">>)]

-----------------------------------------------------------------------------
(* The transport and its outcomes *)

Tokens == {Str(<<"T1">>), Str(<<"T2">>)}
TokenBody(T) == Join(<<Str(<<"{\"access_token\":\"">>), T, Str(<<"\"}">>)>>)
Bodies ==
    {Str(<<"not json">>), Str(<<"null">>), Str(<<"{}">>)} \cup {TokenBody(T) : T \in Tokens}

Statuses == {200, 201, 204, 401, 404, 500}
ErrorCodes == {401, 404, 500}
Reason(code) ==
    CASE code = 401 -> Str(<<"Unauthorized">>)
      [] code = 404 -> Str(<<"Not Found">>)
      [] OTHER -> Str(<<"Internal Server Error">>)

\* getheaders(): a list of (name, value) pairs, possibly with a repeated name.
HeaderLists ==
    {List(<< >>), List(<< <<"h1", Str(<<"v1">>)>>, <<"h1", Str(<<"v2">>)>> >>)}

\* The body an HTTPError carries besides its code and reason.
ErrorPage == Str(<<"<html>error</html>">>)

\* What one call of self._client.open can do: return a reply, raise HTTPError
\* or raise URLError.
Outcomes ==
    [kind : {"reply"}, status : Statuses, body : Bodies, headers : HeaderLists]
    \cup {[kind |-> "HTTPError", code |-> c, reason |-> Reason(c), body |-> ErrorPage] :
              c \in ErrorCodes}
    \cup {[kind |-> "URLError", reason |-> Str(<<"timed out">>)]}

-----------------------------------------------------------------------------
(* class Response *)

\* json.loads: the decoded value, or ValueError for a body that is not JSON.
ValueError == [exc |-> "ValueError"]
json_loads(data) ==
    CASE data = Str(<<"null">>) -> None
      [] data = Str(<<"{}">>) -> EmptyDict
      [] \E T \in Tokens : data = TokenBody(T) ->
            [access_token |-> CHOOSE T \in Tokens : data = TokenBody(T)]
      [] OTHER -> ValueError

\* dict(pairs): a later pair with the same key overwrites an earlier one.
dict(pairs) ==
    [k \in {pairs[i][1] : i \in DOMAIN pairs} |->
        LET last == CHOOSE i \in DOMAIN pairs :
                        /\ pairs[i][1] = k
                        /\ \A j \in DOMAIN pairs : pairs[j][1] = k => j <= i
        IN pairs[last][2]]

\* Response.__init__
Response(status, data, headers) ==
    [status |-> status,
     data |-> data,
     headers |-> IF Truthy(headers) THEN dict(headers.list) ELSE EmptyDict,
     _json |-> None]

\* Response.json: the object after the access, what the access returned or
\* raised, and the number of json.loads calls it made.
json(self) ==
    IF self._json = None
    THEN LET v == json_loads(self.data) IN
         IF v = ValueError
         THEN [self |-> self,
               result |-> Raise(ServiceNowError(
                   Join(<<Str(<<"Received invalid JSON response: ">>), self.data>>))),
               loads |-> 1]
         ELSE [self |-> [self EXCEPT !._json = v], result |-> Return(v), loads |-> 1]
    ELSE [self |-> self, result |-> Return(self._json), loads |-> 0]

-----------------------------------------------------------------------------
(* class Client: construction *)

Threads == {1, 2}

Hosts == {Str(<<"https://snow.example.com">>)}
Usernames == {Str(<<"admin">>)}
Passwords == {Str(<<"pass">>)}
\* client_id and client_secret default to None; a caller may also pass "".
ClientIds == {None, Str(<< >>), Str(<<"cid">>)}
ClientSecrets == {None, Str(<<"secret">>)}

\* The transport handle made by Request() in __init__.
TransportHandle == [handle |-> "Request#1"]

Idle(T) ==
    /\ threads = T
    /\ pc = [t \in T |-> "idle"]
    /\ frame = [t \in T |-> None]
    /\ login = [t \in T |-> "unread"]
    /\ opens = [t \in T |-> << >>]
    /\ resp = [t \in T |-> None]
    /\ result = [t \in T |-> None]
    /\ opened = << >>
    /\ ncalls = 0

\* Client.__init__
ClientInit ==
    /\ host \in Hosts
    /\ username \in Usernames
    /\ password \in Passwords
    /\ client_id \in ClientIds
    /\ client_secret \in ClientSecrets
    /\ _auth_header = None
    /\ _client = TransportHandle

-----------------------------------------------------------------------------
(* class Client: authentication *)

\* ansible.module_utils.urls.basic_auth_header: "Basic " + base64(user:password).
\* base64 is kept abstract: an injective encoding of its argument.
b64encode(s) == Join(<<Str(<<"b64(">>), s, Str(<<")">>)>>)
basic_auth_header(user, pass) ==
    Join(<<Str(<<"Basic ">>), b64encode(Join(<<user, Str(<<":">>), pass>>))>>)

\* Client._login_username_password
_login_username_password ==
    [Authorization |-> basic_auth_header(username, password)]

\* str(v), as urlencode applies it to each value of the form.
str(v) == IF v = None THEN Str(<<"None">>) ELSE v

\* urlencode of the password-grant form.  The field values of the model hold
\* only unreserved characters, which urlencode leaves as they are.
urlencode_grant ==
    Join(<<Str(<<"grant_type=password&username=">>), str(username),
           Str(<<"&password=">>), str(password),
           Str(<<"&client_id=">>), str(client_id),
           Str(<<"&client_secret=">>), str(client_secret)>>)

\* The arguments _login_oauth passes to _request.
TokenUrl == Join(<<host, Str(<<"/oauth_token.do">>)>>)
_login_oauth_args ==
    [method |-> "POST",
     url |-> TokenUrl,
     data |-> urlencode_grant,
     headers |-> [Accept |-> Str(<<"application/json">>)]]

\* Mutant of _request: HTTPError 401 is passed on as a Response like any
\* other HTTP error.
_request_No401(o) ==
    CASE o.kind = "HTTPError" -> Return(Response(o.code, o.reason, None))
      [] o.kind = "URLError" -> Raise(ServiceNowError(o.reason))
      [] OTHER -> Return(Response(o.status, o.body, o.headers))

\* Mutant of _request: the test of the code is dropped, every HTTPError
\* raises AuthError.
_request_EveryHttpErrorRaises(o) ==
    CASE o.kind = "HTTPError" ->
            Raise(AuthError(Join(<<
                Str(<<"Failed to authenticate with the instance: ">>),
                Str(<<ToString(o.code)>>), Str(<<" ">>), o.reason>>)))
      [] o.kind = "URLError" -> Raise(ServiceNowError(o.reason))
      [] OTHER -> Return(Response(o.status, o.body, o.headers))

\* Client._request, given what self._client.open did.
_request(o) ==
    CASE o.kind = "HTTPError" ->
            IF o.code = 401
            THEN Raise(AuthError(Join(<<
                     Str(<<"Failed to authenticate with the instance: ">>),
                     Str(<<ToString(o.code)>>), Str(<<" ">>), o.reason>>)))
            ELSE Return(Response(o.code, o.reason, None))
      [] o.kind = "URLError" -> Raise(ServiceNowError(o.reason))
      [] OTHER -> Return(Response(o.status, o.body, o.headers))

\* Mutant of _login_oauth: every 2xx status of the token endpoint is taken
\* as success.
_login_oauth_Any2xx(o) ==
    LET rr == _request(o) IN
    IF rr.kind = "raise" THEN rr
    ELSE IF rr.value.status >= 300
    THEN Raise(UnexpectedAPIResponse(rr.value.status, rr.value.data))
    ELSE LET j == json(rr.value).result IN
         IF j.kind = "raise" THEN j
         ELSE IF j.value = None THEN Raise(TypeError)
         ELSE IF "access_token" \notin DOMAIN j.value
         THEN Raise(KeyError("access_token"))
         ELSE Return([Authorization |->
                         Join(<<Str(<<"Bearer ">>), j.value.access_token>>)])

\* Client._login_oauth, given what the token request's open did: the header
\* dict it returns, or the exception it raises.
_login_oauth(o) ==
    LET rr == _request(o) IN
    IF rr.kind = "raise" THEN rr
    ELSE IF rr.value.status # 200
    THEN Raise(UnexpectedAPIResponse(rr.value.status, rr.value.data))
    ELSE LET j == json(rr.value).result IN
         IF j.kind = "raise" THEN j
         ELSE IF j.value = None THEN Raise(TypeError)
         ELSE IF "access_token" \notin DOMAIN j.value
         THEN Raise(KeyError("access_token"))
         ELSE Return([Authorization |->
                         Join(<<Str(<<"Bearer ">>), j.value.access_token>>)])

\* Mutant of the test of _login: "or" in place of "and".
UsesOAuth_Either == Truthy(client_id) \/ Truthy(client_secret)

\* The test of Client._login: OAuth when both client values are truthy.
UsesOAuth == Truthy(client_id) /\ Truthy(client_secret)

-----------------------------------------------------------------------------
(* class Client: the request builder and the verb wrappers *)

\* Relative paths a caller passes; the second ends in slashes and holds a space.
Paths ==
    {Str(<<"table", "/", "incident">>), Str(<<"table", "/", "my incident", "/", "/">>)}
\* JSON payloads a caller passes; the first is falsy.
Payloads == {EmptyDict, [short_description |-> Str(<<"x">>)]}
\* Methods a caller passes to Client.request.
RequestMethods == {"PATCH"}

\* path.rstrip("/")
RECURSIVE rstrip_chunks(_)
rstrip_chunks(cs) ==
    IF cs # << >> /\ cs[Len(cs)] = "/" THEN rstrip_chunks(SubSeq(cs, 1, Len(cs) - 1))
    ELSE cs
rstrip(path) == Str(rstrip_chunks(path.str))

\* urllib quote: "/" and unreserved characters stay, a space becomes %20.
quote_chunk(c) == IF c = "my incident" THEN "my%20incident" ELSE c
quote(path) == Str([i \in DOMAIN path.str |-> quote_chunk(path.str[i])])

\* json.dumps(data, separators=(",", ":"))
json_dumps(data) ==
    IF data = EmptyDict THEN Str(<<"{}">>)
    ELSE Str(<<"{\"short_description\":\"">> \o data.short_description.str \o <<"\"}">>)

\* Mutant of request: "if data" in place of "if data is not None".
request_args_TruthyData(f, auth_header) ==
    LET escaped_path == quote(rstrip(f.path))
        url == Join(<<host, Str(<<"/api/now/">>), escaped_path>>)
        headers == [Accept |-> Str(<<"application/json">>)] @@ auth_header
    IN IF Truthy(f.data)
       THEN [method |-> f.method, url |-> url, data |-> json_dumps(f.data),
             headers |-> ("Content-type" :> Str(<<"application/json">>)) @@ headers]
       ELSE [method |-> f.method, url |-> url, data |-> None, headers |-> headers]

\* Client.request up to its call of _request: the arguments it passes on,
\* built from the call's frame and the value read from auth_header.
request_args(f, auth_header) ==
    LET escaped_path == quote(rstrip(f.path))
        url == Join(<<host, Str(<<"/api/now/">>), escaped_path>>)
        headers == [Accept |-> Str(<<"application/json">>)] @@ auth_header
    IN IF f.data # None
       THEN [method |-> f.method, url |-> url, data |-> json_dumps(f.data),
             headers |-> ("Content-type" :> Str(<<"application/json">>)) @@ headers]
       ELSE [method |-> f.method, url |-> url, data |-> None, headers |-> headers]

\* Mutant of get: 404 is not accepted.
get_Only200(rr) ==
    IF rr.kind = "raise" THEN rr
    ELSE IF rr.value.status = 200 THEN Return(rr.value)
    ELSE Raise(UnexpectedAPIResponse(rr.value.status, rr.value.data))

\* Client.get, given what self.request returned or raised.
get(rr) ==
    IF rr.kind = "raise" THEN rr
    ELSE IF rr.value.status \in {200, 404} THEN Return(rr.value)
    ELSE Raise(UnexpectedAPIResponse(rr.value.status, rr.value.data))

\* Mutant of post: 200 is accepted besides 201.
post_Also200(rr) ==
    IF rr.kind = "raise" THEN rr
    ELSE IF rr.value.status \in {200, 201} THEN Return(rr.value)
    ELSE Raise(UnexpectedAPIResponse(rr.value.status, rr.value.data))

\* Client.post
post(rr) ==
    IF rr.kind = "raise" THEN rr
    ELSE IF rr.value.status = 201 THEN Return(rr.value)
    ELSE Raise(UnexpectedAPIResponse(rr.value.status, rr.value.data))

\* Client.put
put(rr) ==
    IF rr.kind = "raise" THEN rr
    ELSE IF rr.value.status = 200 THEN Return(rr.value)
    ELSE Raise(UnexpectedAPIResponse(rr.value.status, rr.value.data))

\* Mutant of delete: the status test is inverted.
delete_Inverted(rr) ==
    IF rr.kind = "raise" THEN rr
    ELSE IF rr.value.status = 204
    THEN Raise(UnexpectedAPIResponse(rr.value.status, rr.value.data))
    ELSE Return(None)

\* Client.delete: falls off the end, returning None, on 204.
delete(rr) ==
    IF rr.kind = "raise" THEN rr
    ELSE IF rr.value.status # 204
    THEN Raise(UnexpectedAPIResponse(rr.value.status, rr.value.data))
    ELSE Return(None)

\* Mutant of the calling operation: a direct call of request has its status
\* checked the way get checks it.
Finish_RequestEnforces(op, rr) ==
    CASE op = "post" -> post(rr)
      [] op = "put" -> put(rr)
      [] op = "delete" -> delete(rr)
      [] OTHER -> get(rr)

\* What the called operation does with the outcome of self.request.
Finish(op, rr) ==
    CASE op = "get" -> get(rr)
      [] op = "post" -> post(rr)
      [] op = "put" -> put(rr)
      [] op = "delete" -> delete(rr)
      [] OTHER -> rr

\* The calls a caller can make: the operation with the method, path and
\* payload it hands to Client.request.
CallFrames ==
    {[op |-> "get", method |-> "GET", path |-> p, data |-> None] : p \in Paths}
    \cup {[op |-> "post", method |-> "POST", path |-> p, data |-> d] :
              p \in Paths, d \in Payloads}
    \cup {[op |-> "put", method |-> "PUT", path |-> p, data |-> d] :
              p \in Paths, d \in Payloads}
    \cup {[op |-> "delete", method |-> "DELETE", path |-> p, data |-> None] : p \in Paths}
    \cup {[op |-> "request", method |-> m, path |-> p, data |-> d] :
              m \in RequestMethods, p \in Paths, d \in Payloads \cup {None}}

\* Mutant of the transport call: a new transport handle is made for the call
\* in place of self._client.
Open_NewHandle(args, o) ==
    [args |-> args, outcome |-> o, handle |-> [handle |-> "Request#2"]]

\* One call of self._client.open: the handle it is made on, its arguments
\* and what the transport did.
Open(args, o) == [args |-> args, outcome |-> o, handle |-> _client]

\* One entry of the lifetime log of transport calls.
Opened(t, args) ==
    [caller |-> t,
     endpoint |-> IF args.url = TokenUrl THEN "oauth_token.do" ELSE "api/now",
     op |-> frame[t].op,
     auth |-> IF "Authorization" \in DOMAIN args.headers
              THEN args.headers.Authorization ELSE None]

-----------------------------------------------------------------------------
(* The steps of a call *)

\* A caller calls get, post, put, delete or request; Client.request runs up to
\* its read of self.auth_header.
Call(t) ==
    /\ pc[t] = "idle"
    /\ ncalls < MaxCalls
    /\ \E f \in CallFrames : frame' = [frame EXCEPT ![t] = f]
    /\ ncalls' = ncalls + 1
    /\ pc' = [pc EXCEPT ![t] = "auth_header"]
    /\ login' = [login EXCEPT ![t] = "unread"]
    /\ opens' = [opens EXCEPT ![t] = << >>]
    /\ resp' = [resp EXCEPT ![t] = None]
    /\ result' = [result EXCEPT ![t] = None]
    /\ UNCHANGED <<clientVars, threads, opened, responseVars>>

\* Mutant of auth_header: the cache is never consulted, every read logs in.
AuthHeader_NoCache(t) ==
    /\ pc[t] = "auth_header"
    /\ pc' = [pc EXCEPT ![t] = "login"]
    /\ UNCHANGED <<clientVars, threads, frame, login, opens, resp, result, opened,
                   ncalls, responseVars>>

\* Client.auth_header, the test "if not self._auth_header".
AuthHeader(t) ==
    /\ pc[t] = "auth_header"
    /\ IF Truthy(_auth_header)
       THEN /\ pc' = [pc EXCEPT ![t] = "send"]
            /\ login' = [login EXCEPT ![t] = "cached"]
       ELSE /\ pc' = [pc EXCEPT ![t] = "login"]
            /\ UNCHANGED login
    /\ UNCHANGED <<clientVars, threads, frame, opens, resp, result, opened, ncalls,
                   responseVars>>

\* Mutant: a failed login is memoized as an empty bearer header.
RaiseFromLogin_Cached(t, e) ==
    /\ pc' = [pc EXCEPT ![t] = "done"]
    /\ login' = [login EXCEPT ![t] = "raised"]
    /\ resp' = [resp EXCEPT ![t] = e]
    /\ result' = [result EXCEPT ![t] = Finish(frame[t].op, e)]
    /\ _auth_header' = [Authorization |-> Str(<<"Bearer ">>)]

\* Mutant: the exception of a failed login is swallowed and the domain
\* request goes out all the same.
RaiseFromLogin_Swallowed(t, e) ==
    /\ pc' = [pc EXCEPT ![t] = "send"]
    /\ login' = [login EXCEPT ![t] = "raised"]
    /\ UNCHANGED <<resp, result, _auth_header>>

\* Mutant: a login that raised is tried again inside the same call.
RaiseFromLogin_Retry(t, e) ==
    /\ pc' = [pc EXCEPT ![t] = "login"]
    /\ UNCHANGED <<login, resp, result, _auth_header>>

\* A call ends by raising e out of self.auth_header, before _request is called.
RaiseFromLogin(t, e) ==
    /\ pc' = [pc EXCEPT ![t] = "done"]
    /\ login' = [login EXCEPT ![t] = "raised"]
    /\ resp' = [resp EXCEPT ![t] = e]
    /\ result' = [result EXCEPT ![t] = Finish(frame[t].op, e)]
    /\ UNCHANGED _auth_header

\* self._auth_header = self._login(), without OAuth: no transport call.
LoginBasic(t) ==
    /\ pc[t] = "login"
    /\ ~UsesOAuth
    /\ _auth_header' = _login_username_password
    /\ pc' = [pc EXCEPT ![t] = "send"]
    /\ login' = [login EXCEPT ![t] = "ok"]
    /\ UNCHANGED <<host, username, password, client_id, client_secret, _client,
                   threads, frame, opens, resp, result, opened, ncalls, responseVars>>

\* Mutant of the OAuth login: the header a login obtained is stored only if
\* the cache is still empty when the login returns.
LoginOAuth_KeepsFirst(t) ==
    /\ pc[t] = "login"
    /\ UsesOAuth
    /\ \E o \in Outcomes :
          LET hdr == _login_oauth(o) IN
          /\ opens' = [opens EXCEPT ![t] = Append(@, Open(_login_oauth_args, o))]
          /\ IF hdr.kind = "raise"
             THEN RaiseFromLogin(t, hdr)
             ELSE /\ _auth_header' =
                        IF Truthy(_auth_header) THEN _auth_header ELSE hdr.value
                  /\ pc' = [pc EXCEPT ![t] = "send"]
                  /\ login' = [login EXCEPT ![t] = "ok"]
                  /\ UNCHANGED <<resp, result>>
    /\ opened' = Append(opened, Opened(t, _login_oauth_args))
    /\ UNCHANGED <<host, username, password, client_id, client_secret, _client,
                   threads, frame, ncalls, responseVars>>

\* self._auth_header = self._login(), with OAuth: one call of the token
\* endpoint, then the header is stored or the exception leaves the call.
LoginOAuth(t) ==
    /\ pc[t] = "login"
    /\ UsesOAuth
    /\ \E o \in Outcomes :
          LET hdr == _login_oauth(o) IN
          /\ opens' = [opens EXCEPT ![t] = Append(@, Open(_login_oauth_args, o))]
          /\ IF hdr.kind = "raise"
             THEN RaiseFromLogin(t, hdr)
             ELSE /\ _auth_header' = hdr.value
                  /\ pc' = [pc EXCEPT ![t] = "send"]
                  /\ login' = [login EXCEPT ![t] = "ok"]
                  /\ UNCHANGED <<resp, result>>
    /\ opened' = Append(opened, Opened(t, _login_oauth_args))
    /\ UNCHANGED <<host, username, password, client_id, client_secret, _client,
                   threads, frame, ncalls, responseVars>>

\* Mutant of the domain request: an HTTPError 401 clears the cached header,
\* so that the next call logs in again.
Send_Clears401(t) ==
    /\ pc[t] = "send"
    /\ \E o \in Outcomes :
          LET args == request_args(frame[t], _auth_header)
              rr == _request(o)
          IN /\ opens' = [opens EXCEPT ![t] = Append(@, Open(args, o))]
             /\ opened' = Append(opened, Opened(t, args))
             /\ resp' = [resp EXCEPT ![t] = rr]
             /\ result' = [result EXCEPT ![t] = Finish(frame[t].op, rr)]
             /\ _auth_header' =
                    IF o.kind = "HTTPError" /\ o.code = 401 THEN None ELSE _auth_header
    /\ pc' = [pc EXCEPT ![t] = "done"]
    /\ UNCHANGED <<host, username, password, client_id, client_secret, _client,
                   threads, frame, login, ncalls, responseVars>>

\* The rest of Client.request, "return self._auth_header" included, and of the
\* operation that called it: the domain request and the status check.
Send(t) ==
    /\ pc[t] = "send"
    /\ \E o \in Outcomes :
          LET args == request_args(frame[t], _auth_header)
              rr == _request(o)
          IN /\ opens' = [opens EXCEPT ![t] = Append(@, Open(args, o))]
             /\ opened' = Append(opened, Opened(t, args))
             /\ resp' = [resp EXCEPT ![t] = rr]
             /\ result' = [result EXCEPT ![t] = Finish(frame[t].op, rr)]
    /\ pc' = [pc EXCEPT ![t] = "done"]
    /\ UNCHANGED <<clientVars, threads, frame, login, ncalls, responseVars>>

\* The caller takes the call's outcome.
Done(t) ==
    /\ pc[t] = "done"
    /\ pc' = [pc EXCEPT ![t] = "idle"]
    /\ frame' = [frame EXCEPT ![t] = None]
    /\ login' = [login EXCEPT ![t] = "unread"]
    /\ opens' = [opens EXCEPT ![t] = << >>]
    /\ resp' = [resp EXCEPT ![t] = None]
    /\ result' = [result EXCEPT ![t] = None]
    /\ UNCHANGED <<clientVars, threads, opened, ncalls, responseVars>>

-----------------------------------------------------------------------------
(* Reading the json property of a Response *)

ResponseIdle ==
    /\ r = None
    /\ reads = 0
    /\ parses = 0
    /\ got = << >>

\* Any Response a caller can hold: one made by _request.
ResponseInit ==
    /\ r \in {_request(o).value : o \in {x \in Outcomes : _request(x).kind = "return"}}
    /\ reads = 0
    /\ parses = 0
    /\ got = << >>

\* One access to r.json.
ReadJson ==
    /\ reads < MaxReads
    /\ LET j == json(r) IN
          /\ r' = j.self
          /\ parses' = parses + j.loads
          /\ got' = Append(got, j.result)
    /\ reads' = reads + 1
    /\ UNCHANGED <<clientVars, callVars>>

-----------------------------------------------------------------------------
(* Specifications *)

\* One client used by one caller, call after call.
Init == ClientInit /\ Idle({1}) /\ ResponseIdle

Next ==
    \/ \E t \in threads : Call(t)
    \/ \E t \in threads : AuthHeader(t)
    \/ \E t \in threads : LoginBasic(t)
    \/ \E t \in threads : LoginOAuth(t)
    \/ \E t \in threads : Send(t)
    \/ \E t \in threads : Done(t)

Spec == Init /\ [][Next]_vars

\* Two callers share one client and their steps interleave. The calls are
\* gets, and the transport answers 200 with a token body, raises HTTPError
\* 401 or raises URLError.
ConcFrames == {f \in CallFrames : f.op = "get"}
ConcOutcomes ==
    {o \in Outcomes :
        \/ /\ o.kind = "reply"
           /\ o.status = 200
           /\ o.body \in {TokenBody(T) : T \in Tokens}
           /\ o.headers = List(<< >>)
        \/ o.kind = "HTTPError" /\ o.code = 401
        \/ o.kind = "URLError"}

InitConc == ClientInit /\ Idle(Threads) /\ ResponseIdle

NextConc ==
    \/ \E t \in threads : Call(t) /\ frame'[t] \in ConcFrames
    \/ \E t \in threads : AuthHeader(t)
    \/ \E t \in threads : LoginBasic(t)
    \/ \E t \in threads :
          LoginOAuth(t) /\ opens'[t][Len(opens'[t])].outcome \in ConcOutcomes
    \/ \E t \in threads :
          Send(t) /\ opens'[t][Len(opens'[t])].outcome \in ConcOutcomes
    \/ \E t \in threads : Done(t)

SpecConc == InitConc /\ [][NextConc]_vars

\* One Response object whose json property is read again and again.
InitResponse ==
    /\ host \in Hosts
    /\ username = Str(<<"admin">>)
    /\ password \in Passwords
    /\ client_id = None
    /\ client_secret = None
    /\ _auth_header = None
    /\ _client = TransportHandle
    /\ Idle({1})
    /\ ResponseInit

NextResponse == ReadJson

SpecResponse == InitResponse /\ [][NextResponse]_vars

-----------------------------------------------------------------------------
(* Helpers of the properties *)

\* The calls that have ended: returned or raised.
Ended(op) == {t \in threads : pc[t] = "done" /\ frame[t].op = op}

\* The status and the body-or-reason the transport delivered with outcome o,
\* the way _request puts them into a Response.
Delivered(o) ==
    IF o.kind = "HTTPError" THEN [status |-> o.code, data |-> o.reason]
    ELSE [status |-> o.status, data |-> o.body]

IsHttp401(o) == o.kind = "HTTPError" /\ o.code = 401

\* The transport calls of caller t's current call that went to the token
\* endpoint, and those that went to the table API.
TokenOpens(t) == {i \in DOMAIN opens[t] : opens[t][i].args.url = TokenUrl}
DomainOpens(t) == DOMAIN opens[t] \ TokenOpens(t)

\* The token-endpoint calls of the client's lifetime.
TokenCalls == {i \in DOMAIN opened : opened[i].endpoint = "oauth_token.do"}
DomainCalls == DOMAIN opened \ TokenCalls

-----------------------------------------------------------------------------
(* Properties of the verb wrappers *)

\* C1: whenever a get call has ended and request returned a Response, get
\* returned that very Response if its status is 200 or 404 (also a 404 that
\* came as an HTTPError), and raised UnexpectedAPIResponse with that status
\* and body for any other status.
C1_GetStatusContract ==
    \A t \in Ended("get") :
        resp[t].kind = "return" =>
            LET o == opens[t][Len(opens[t])].outcome
                d == Delivered(o)
            IN /\ resp[t].value.status = d.status
               /\ resp[t].value.data = d.data
               /\ IF d.status \in {200, 404}
                  THEN result[t] = Return(resp[t].value)
                  ELSE result[t] = Raise(UnexpectedAPIResponse(d.status, d.data))

\* A get has returned the Response of a 404 that came as an HTTPError.
C1_Witness ==
    \E t \in Ended("get") :
        /\ opens[t][Len(opens[t])].outcome.kind = "HTTPError"
        /\ opens[t][Len(opens[t])].outcome.code = 404
        /\ result[t].kind = "return"
        /\ result[t].value.status = 404

\* C2: post returns the Response exactly when the status is 201 and put
\* exactly when it is 200; for any other status they raise
\* UnexpectedAPIResponse with that status and body.
C2_PostPutStatusContract ==
    /\ \A t \in Ended("post") :
          resp[t].kind = "return" =>
              LET d == Delivered(opens[t][Len(opens[t])].outcome) IN
              /\ (result[t].kind = "return") <=> (d.status = 201)
              /\ result[t] = IF d.status = 201 THEN Return(resp[t].value)
                             ELSE Raise(UnexpectedAPIResponse(d.status, d.data))
    /\ \A t \in Ended("put") :
          resp[t].kind = "return" =>
              LET d == Delivered(opens[t][Len(opens[t])].outcome) IN
              /\ (result[t].kind = "return") <=> (d.status = 200)
              /\ result[t] = IF d.status = 200 THEN Return(resp[t].value)
                             ELSE Raise(UnexpectedAPIResponse(d.status, d.data))

\* A post whose request got status 200 has raised UnexpectedAPIResponse(200, ...).
C2_Witness ==
    \E t \in Ended("post") :
        /\ resp[t].kind = "return"
        /\ resp[t].value.status = 200
        /\ result[t] = Raise(UnexpectedAPIResponse(200, resp[t].value.data))

\* C3: delete returns None when the status is 204 and raises
\* UnexpectedAPIResponse with the status for any other status.
C3_DeleteStatusContract ==
    \A t \in Ended("delete") :
        resp[t].kind = "return" =>
            LET d == Delivered(opens[t][Len(opens[t])].outcome) IN
            IF d.status = 204
            THEN result[t] = Return(None)
            ELSE /\ result[t].kind = "raise"
                 /\ result[t].value.exc = "UnexpectedAPIResponse"
                 /\ result[t].value.status = d.status

\* A delete whose request got status 204 has returned None.
C3_Witness ==
    \E t \in Ended("delete") :
        /\ resp[t].kind = "return"
        /\ resp[t].value.status = 204
        /\ result[t] = Return(None)

\* C4: when a transport call of a get, post, put or delete raised HTTPError
\* 401, be it the token request or the domain request, the call raised
\* AuthError.
C4_Http401RaisesAuthError ==
    \A t \in threads :
        \A i \in DOMAIN opens[t] :
            (IsHttp401(opens[t][i].outcome) /\ frame[t].op # "request") =>
                /\ pc[t] = "done"
                /\ i = Len(opens[t])
                /\ result[t].kind = "raise"
                /\ result[t].value.exc = "AuthError"

\* A put has raised AuthError because the token request got HTTPError 401.
C4_Witness ==
    \E t \in Ended("put") :
        /\ TokenOpens(t) # {}
        /\ \E i \in TokenOpens(t) : IsHttp401(opens[t][i].outcome)
        /\ result[t].value.exc = "AuthError"

-----------------------------------------------------------------------------
(* Properties of the authentication *)

Bearer(T) == [Authorization |-> Join(<<Str(<<"Bearer ">>), T>>)]

\* C5 as stated: after a token request that got a status, a 200 with
\* access_token T leaves auth_header {Authorization: "Bearer T"}, and any other
\* status makes the call raise UnexpectedAPIResponse with the status and body.
C5_TokenStatusContract ==
    \A t \in threads :
        \A i \in TokenOpens(t) :
            LET o == opens[t][i].outcome
                d == Delivered(o)
            IN o.kind # "URLError" =>
                   IF d.status = 200
                   THEN \A T \in Tokens : d.data = TokenBody(T) => _auth_header = Bearer(T)
                   ELSE result[t] = Raise(UnexpectedAPIResponse(d.status, d.data))

\* C5 amended: as C5, but a 401 that comes as an HTTPError raises AuthError,
\* and the body carried for a status that came as an HTTPError is its reason.
C5_TokenStatusContractExcept401 ==
    \A t \in threads :
        \A i \in TokenOpens(t) :
            LET o == opens[t][i].outcome
                d == Delivered(o)
            IN o.kind # "URLError" =>
                   IF IsHttp401(o)
                   THEN /\ result[t].kind = "raise"
                        /\ result[t].value.exc = "AuthError"
                   ELSE IF d.status = 200
                   THEN \A T \in Tokens :
                            d.data = TokenBody(T) =>
                                /\ login[t] = "ok"
                                /\ _auth_header = Bearer(T)
                   ELSE /\ pc[t] = "done"
                        /\ resp[t] = Raise(UnexpectedAPIResponse(d.status, d.data))
                        /\ result[t] = resp[t]
                        /\ _auth_header = None

\* A call has raised UnexpectedAPIResponse(201, body) out of the login.
C5_Witness ==
    \E t \in threads :
        /\ pc[t] = "done"
        /\ TokenOpens(t) # {}
        /\ opens[t][1].outcome.kind = "reply"
        /\ opens[t][1].outcome.status = 201
        /\ result[t] = Raise(UnexpectedAPIResponse(201, opens[t][1].outcome.body))

\* A client value counts as supplied when it is given and not empty.
Supplied(v) == v # None /\ v # Str(<< >>)
BothSupplied == Supplied(client_id) /\ Supplied(client_secret)

\* C6: a login goes to the token endpoint exactly when both client id and
\* client secret are supplied; otherwise the header is the basic-auth encoding
\* of (username, password), got without a transport call, so that an ended
\* call has made exactly one transport call.
C6_LoginStrategy ==
    /\ \A t \in threads :
          /\ login[t] = "ok" =>
                IF BothSupplied
                THEN /\ Cardinality(TokenOpens(t)) = 1
                     /\ \E T \in Tokens : _auth_header = Bearer(T)
                ELSE /\ TokenOpens(t) = {}
                     /\ _auth_header =
                            [Authorization |-> Join(<<Str(<<"Basic ">>),
                                b64encode(Join(<<username, Str(<<":">>), password>>))>>)]
          /\ login[t] = "raised" => BothSupplied
          /\ (~BothSupplied /\ pc[t] = "done") =>
                /\ Len(opens[t]) = 1
                /\ opens[t][1].args.headers.Authorization = _auth_header.Authorization
    /\ ~BothSupplied => TokenCalls = {}
    /\ (BothSupplied /\ Truthy(_auth_header)) => TokenCalls # {}

\* A call on a client given a client secret but an empty client id has ended
\* after one transport call, sent with the basic-auth header.
C6_Witness ==
    \E t \in threads :
        /\ pc[t] = "done"
        /\ client_id = Str(<< >>)
        /\ client_secret # None
        /\ Len(opens[t]) = 1
        /\ opens[t][1].args.headers.Authorization = basic_auth_header(username, password)

\* C7: once the auth header is set, no step changes it, no step calls the
\* token endpoint, and every transport call made carries its Authorization.
C7_HeaderSetOnce ==
    [][Truthy(_auth_header) =>
          /\ _auth_header' = _auth_header
          /\ TokenCalls' = TokenCalls
          /\ \A i \in DOMAIN opened' \ DOMAIN opened :
                opened'[i].auth = _auth_header.Authorization]_vars

\* Two get calls in a row on an OAuth client have ended after one token call
\* and two domain requests with the same Authorization.
C7_Witness ==
    /\ UsesOAuth
    /\ Len(opened) = 3
    /\ Cardinality(TokenCalls) = 1
    /\ \A i \in 1..3 : opened[i].op = "get"
    /\ opened[2].auth = opened[3].auth
    /\ opened[3].auth = _auth_header.Authorization
    /\ \E t \in threads : pc[t] = "done"

\* C8 as stated: the token endpoint is called at most once in a client's
\* lifetime.
C8_LoginAtMostOnce == Cardinality(TokenCalls) <= 1

\* C8 amended: a call makes at most one token request; a login that raised
\* leaves the cache empty, and as long as the cache of an OAuth client is empty
\* every call that has read auth_header has made a token request; once a
\* domain request has gone out no token request follows.
C8_LoginRetriedUntilSuccess ==
    /\ \A t \in threads :
          /\ Cardinality(TokenOpens(t)) <= 1
          /\ login[t] = "raised" => _auth_header = None
    /\ (UsesOAuth /\ ~Truthy(_auth_header)) =>
          Cardinality(TokenCalls) =
              ncalls - Cardinality({t \in threads : pc[t] \in {"auth_header", "login"}})
    /\ \A i \in DomainCalls : \A j \in TokenCalls : j < i

\* A second call has logged in again after the login of the first call raised.
C8_Witness ==
    /\ Cardinality(TokenCalls) = 2
    /\ \E t \in threads : login[t] = "ok" /\ pc[t] = "done"

\* C9: a domain request goes to the transport only after auth_header has been
\* read with success in the same call, after the call's token request if
\* there is one, and with the cached Authorization in its headers; a call
\* whose login raised sends no domain request.
C9_AuthBeforeDomainRequest ==
    /\ \A t \in threads :
          /\ \A i \in DomainOpens(t) :
                /\ login[t] \in {"cached", "ok"}
                /\ "Authorization" \in DOMAIN opens[t][i].args.headers
                /\ Truthy(_auth_header)
                /\ opens[t][i].args.headers.Authorization = _auth_header.Authorization
                /\ \A j \in TokenOpens(t) : j < i
          /\ login[t] = "raised" => (pc[t] = "done" /\ DomainOpens(t) = {})
    /\ \A i \in DomainCalls : opened[i].auth # None

\* A call has made its token request and then its domain request.
C9_Witness ==
    \E t \in threads :
        /\ Len(opens[t]) = 2
        /\ TokenOpens(t) = {1}
        /\ "Authorization" \in DOMAIN opens[t][2].args.headers

-----------------------------------------------------------------------------
(* Properties of Response.json *)

\* C10 as stated: a body that is valid JSON is parsed at most once, and every
\* access after the first returns what the first returned.
C10_ParsedAtMostOnce ==
    json_loads(r.data) # ValueError =>
        /\ parses <= 1
        /\ \A i \in DOMAIN got : got[i] = got[1]

-----------------------------------------------------------------------------
(* Properties of request and _request *)

\* The outcome of the last transport call of caller t's current call.
LastOutcome(t) == opens[t][Len(opens[t])].outcome

\* C11: a call of request whose domain request met neither HTTPError 401 nor
\* a network error returns a Response with the status the transport
\* delivered, whatever it is; an UnexpectedAPIResponse raised by request comes
\* from a login whose token request got a status other than 200, and no
\* domain request was made.
C11_RequestEnforcesNoStatus ==
    \A t \in Ended("request") :
        /\ (DomainOpens(t) # {} /\ ~IsHttp401(LastOutcome(t))
                /\ LastOutcome(t).kind # "URLError") =>
              /\ result[t].kind = "return"
              /\ result[t] = resp[t]
              /\ result[t].value.status = Delivered(LastOutcome(t)).status
        /\ (result[t].kind = "raise" /\ result[t].value.exc = "UnexpectedAPIResponse") =>
              /\ DomainOpens(t) = {}
              /\ login[t] = "raised"
              /\ TokenOpens(t) = {1}
              /\ result[t].value.status = Delivered(opens[t][1].outcome).status
              /\ result[t].value.status # 200

\* A call of request has returned a Response with status 500.
C11_Witness ==
    \E t \in Ended("request") :
        /\ DomainOpens(t) # {}
        /\ result[t].kind = "return"
        /\ result[t].value.status = 500

\* The headers of a Response made from the header list hs: every name of the
\* list is a key, bound to the value of the last pair with that name.
HeadersOf(hs, d) ==
    /\ DOMAIN d = {hs[i][1] : i \in DOMAIN hs}
    /\ \A i \in DOMAIN hs :
          (\A j \in DOMAIN hs : j > i => hs[j][1] # hs[i][1]) => d[hs[i][1]] = hs[i][2]

\* C12: what request got from _request for its domain request is, for a
\* reply, a Response with the reply's status, body and headers; for an
\* HTTPError other than 401, a Response with its code and its reason as
\* body; for a URLError, the exception ServiceNowError and no Response.  A
\* URLError of the token request raises ServiceNowError as well.
C12_RequestClassifiesOutcome ==
    \A t \in threads :
        pc[t] = "done" =>
            LET o == LastOutcome(t) IN
            /\ DomainOpens(t) # {} =>
                  CASE o.kind = "reply" ->
                          /\ resp[t].kind = "return"
                          /\ resp[t].value.status = o.status
                          /\ resp[t].value.data = o.body
                          /\ HeadersOf(o.headers.list, resp[t].value.headers)
                    [] o.kind = "HTTPError" /\ o.code # 401 ->
                          /\ resp[t].kind = "return"
                          /\ resp[t].value.status = o.code
                          /\ resp[t].value.data = o.reason
                          /\ resp[t].value.headers = EmptyDict
                    [] o.kind = "URLError" ->
                          resp[t] = Raise(ServiceNowError(o.reason))
                    [] OTHER -> resp[t].kind = "raise"
            /\ o.kind = "URLError" =>
                  /\ result[t].kind = "raise"
                  /\ result[t].value.exc = "ServiceNowError"

\* A call has got a Response made from an HTTPError 500: its code and reason.
C12_Witness ==
    \E t \in threads :
        /\ pc[t] = "done"
        /\ DomainOpens(t) # {}
        /\ LastOutcome(t).kind = "HTTPError"
        /\ LastOutcome(t).code = 500
        /\ resp[t].kind = "return"
        /\ resp[t].value.data = Reason(500)

-----------------------------------------------------------------------------
(* Properties of the cache after a 401 *)

\* C13: a step in which the domain request of a call that found the header
\* cached gets HTTPError 401 raises AuthError, leaves the cached header as
\* it is and adds no token request; and from any state with a cached header,
\* the read of auth_header goes on to the domain request without a login, and
\* the domain request carries the cached Authorization.
C13_CacheKeptOn401 ==
    [][\A t \in threads :
          /\ (pc[t] = "send" /\ login[t] = "cached" /\ pc'[t] = "done"
                  /\ IsHttp401(opens'[t][Len(opens'[t])].outcome)) =>
                /\ result'[t].kind = "raise"
                /\ result'[t].value.exc = "AuthError"
                /\ Truthy(_auth_header)
                /\ _auth_header' = _auth_header
                /\ TokenCalls' = TokenCalls
                /\ Len(opens'[t]) = 1
          /\ (pc[t] = "auth_header" /\ Truthy(_auth_header) /\ pc'[t] # pc[t]) =>
                /\ pc'[t] = "send"
                /\ login'[t] = "cached"
                /\ _auth_header' = _auth_header
                /\ opened' = opened
          /\ (pc[t] = "send" /\ login[t] = "cached" /\ pc'[t] = "done") =>
                /\ Len(opened') = Len(opened) + 1
                /\ opened'[Len(opened')].endpoint = "api/now"
                /\ opened'[Len(opened')].auth = _auth_header.Authorization]_vars

\* A call that found the header of an OAuth client cached has raised
\* AuthError on an HTTPError 401, and the header is still cached.
C13_Witness ==
    \E t \in threads :
        /\ pc[t] = "done"
        /\ login[t] = "cached"
        /\ UsesOAuth
        /\ IsHttp401(LastOutcome(t))
        /\ result[t].value.exc = "AuthError"
        /\ Truthy(_auth_header)
        /\ opened[Len(opened)].auth = _auth_header.Authorization

-----------------------------------------------------------------------------
(* Properties of termination *)

\* How far a call has got.
Rank(p) ==
    CASE p = "idle" -> 0
      [] p = "auth_header" -> 1
      [] p = "login" -> 2
      [] p = "send" -> 3
      [] OTHER -> 4

\* A step of the call in progress of caller t is possible.
CanStep(t) == ENABLED (AuthHeader(t) \/ LoginBasic(t) \/ LoginOAuth(t) \/ Send(t))

\* C14: a call makes at most two transport calls, at most one token request
\* and after it at most one domain request, and the token request carries no
\* Authorization; a call in progress can always take a step, every step
\* takes it nearer to its end and makes at most one transport call, so that it
\* ends, with a value or an exception, after at most three steps.
C14_AtMostTwoTransportCalls ==
    /\ [](\A t \in threads :
            /\ Len(opens[t]) <= 2
            /\ Cardinality(TokenOpens(t)) <= 1
            /\ Cardinality(DomainOpens(t)) <= 1
            /\ \A i \in TokenOpens(t) :
                  /\ i = 1
                  /\ "Authorization" \notin DOMAIN opens[t][i].args.headers
            /\ pc[t] \in {"auth_header", "login", "send"} => CanStep(t)
            /\ pc[t] = "done" => result[t].kind \in {"return", "raise"}
            /\ (pc[t] = "done" /\ result[t].kind = "raise") =>
                  /\ result[t].value.exc \in
                        {"AuthError", "UnexpectedAPIResponse", "ServiceNowError",
                         "KeyError", "TypeError"}
                  /\ login[t] = "raised" => Len(opens[t]) = 1
                  /\ login[t] # "raised" => Cardinality(DomainOpens(t)) = 1)
    /\ [][\A t \in threads :
            /\ (pc[t] \in {"auth_header", "login", "send"} /\ pc'[t] # pc[t]) =>
                  Rank(pc'[t]) > Rank(pc[t])
            /\ pc[t] \in {"auth_header", "login", "send"} =>
                  \/ opens'[t] = opens[t]
                  \/ /\ Len(opens'[t]) = Len(opens[t]) + 1
                     /\ SubSeq(opens'[t], 1, Len(opens[t])) = opens[t]
                     /\ Rank(pc'[t]) > Rank(pc[t])]_vars

\* A call has ended by raising UnexpectedAPIResponse after its two transport
\* calls, the token request and the domain request.
C14_Witness ==
    \E t \in threads :
        /\ pc[t] = "done"
        /\ Len(opens[t]) = 2
        /\ TokenOpens(t) = {1}
        /\ result[t].kind = "raise"
        /\ result[t].value.exc = "UnexpectedAPIResponse"

-----------------------------------------------------------------------------
(* Concurrent first use *)

\* The header the login of caller t's current call obtained.
LoginHeader(t) ==
    IF TokenOpens(t) = {} THEN _login_username_password
    ELSE Bearer(json_loads(opens[t][1].outcome.body).access_token)

\* C15: with two callers on one client, a caller that found the cache empty
\* can perform its login whatever the cache holds by then, and a login that
\* succeeds stores its own header over whatever the cache holds, so the
\* header of a later login replaces the one an earlier login cached.
C15_LoginNotGuarded ==
    /\ [](\A t \in threads :
             pc[t] = "login" => ENABLED (LoginBasic(t) \/ LoginOAuth(t)))
    /\ [][\A t \in threads :
             (pc[t] = "login" /\ pc'[t] = "send") =>
                 /\ UsesOAuth => Cardinality(TokenCalls') = Cardinality(TokenCalls) + 1
                 /\ _auth_header' = LoginHeader(t)']_vars

\* Both callers found the cache empty and both called the token endpoint;
\* the first got T1 and cached it, the second got T2 and the cache now
\* holds the second's header.
C15_Witness ==
    \E t, u \in threads :
        /\ t # u
        /\ pc[t] = "send" /\ login[t] = "ok"
        /\ pc[u] = "send" /\ login[u] = "ok"
        /\ Cardinality(TokenCalls) = 2
        /\ opened[1].caller = t
        /\ opened[2].caller = u
        /\ opens[t][1].outcome.body = TokenBody(Str(<<"T1">>))
        /\ opens[u][1].outcome.body = TokenBody(Str(<<"T2">>))
        /\ _auth_header = Bearer(Str(<<"T2">>))
        /\ _auth_header # LoginHeader(t)

-----------------------------------------------------------------------------
(* Properties of the client's state and of the request it builds *)

\* C16: no step changes host, username, password, client id, client secret
\* or the transport handle, and every transport call, token request or
\* domain request, is made on the handle made at construction.
C16_OnlyAuthHeaderMutable ==
    /\ [](/\ _client = TransportHandle
          /\ \A t \in threads :
                \A i \in DOMAIN opens[t] : opens[t][i].handle = _client)
    /\ [][/\ host' = host
          /\ username' = username
          /\ password' = password
          /\ client_id' = client_id
          /\ client_secret' = client_secret
          /\ _client' = _client]_vars

\* The second call on an OAuth client, whose first call failed, has made its
\* token request and its domain request on the handle of the client.
C16_Witness ==
    \E t \in threads :
        /\ ncalls = 2
        /\ pc[t] = "done"
        /\ Len(opens[t]) = 2
        /\ Len(opened) = 3
        /\ opens[t][1].handle = _client
        /\ opens[t][2].handle = _client
        /\ client_id = Str(<<"cid">>)
        /\ client_secret = Str(<<"secret">>)

\* C17: a domain request carries a body and Content-type: application/json
\* exactly when the call's payload is not None, an empty payload included,
\* the body being the compact JSON text of the payload; with or without a
\* payload it carries Accept: application/json and the cached Authorization,
\* and no other header.
C17_BodyAndContentType ==
    \A t \in threads :
        \A i \in DomainOpens(t) :
            LET a == opens[t][i].args
                f == frame[t]
            IN /\ (f.data # None) <=> (a.data # None)
               /\ (f.data # None) <=> ("Content-type" \in DOMAIN a.headers)
               /\ f.op \in {"get", "delete"} => a.data = None
               /\ f.data = EmptyDict => a.data = Str(<<"{}">>)
               /\ (f.data # None /\ f.data # EmptyDict) =>
                     a.data = Str(<<"{\"short_description\":\"", "x", "\"}">>)
               /\ f.data # None => a.headers["Content-type"] = Str(<<"application/json">>)
               /\ a.headers["Accept"] = Str(<<"application/json">>)
               /\ a.headers["Authorization"] = _auth_header.Authorization
               /\ DOMAIN a.headers \subseteq {"Accept", "Authorization", "Content-type"}
               /\ a.method = f.method

\* A post with the empty payload {} has sent the body "{}" with Content-type.
C17_Witness ==
    \E t \in Ended("post") :
        /\ frame[t].data = EmptyDict
        /\ DomainOpens(t) # {}
        /\ LET a == opens[t][Len(opens[t])].args IN
              /\ a.data = Str(<<"{}">>)
              /\ a.headers["Content-type"] = Str(<<"application/json">>)

=============================================================================
